---- MODULE Spec2Model ----
(***************************************************************************)
(* A model of src/utils.py: the PostgreSQL helpers (execute_query,         *)
(* create_table_from_df), the file readers (read_sql_file, read_json_file) *)
(* and the tabular cleaner (limpieza_general).                             *)
(*                                                                         *)
(* Text is a sequence of one-character strings.  Two characters outside    *)
(* ASCII are written by their code point: "U+03D2" (an uppercase letter    *)
(* that str.lower leaves alone) and "U+0130" (whose lowercase form is the  *)
(* two characters "i", "U+0307").                                          *)
(***************************************************************************)
EXTENDS Integers, Sequences, FiniteSets

VARIABLES
    \* ---- limpieza_general ----
    cpc,        \* position in limpieza_general
    input,      \* the caller's DataFrame (never assigned after Init)
    df,         \* the local copy the function works on
    ci,         \* position of the running column loop
    pre,        \* the rows handed to drop_duplicates (history)
    raisedAt,   \* source line of the exception that left the function, 0 if none
    \* ---- execute_query, create_table_from_df, read_sql_file, read_json_file ----
    pc,         \* position in the running call, "idle" between calls
    fn,         \* the function called last
    arg,        \* its arguments
    conn,       \* the call's local variable conn: a connection id, 0 when unset
    conns,      \* the connections open at the server, each with its transaction
    db,         \* the committed tables
    result,     \* what the last call returned
    outcome,    \* "returned" or "raised", "none" while a call runs
    printed,    \* the diagnostic the last call printed
    calls,      \* number of calls made
    ins,        \* position of the insert loop
    log,        \* the statements the running call has issued
    rows0,      \* the table's committed rows when the call began (history)
    expected,   \* the rows of the successful create_table_from_df calls (history)
    data,       \* execute_query's locals columns and data
    \* ---- the schema of create_table_from_df ----
    spc,        \* position in the schema construction
    sdf,        \* the DataFrame whose schema is built
    column_types,       \* the list built by the loop of lines 61-69
    create_table_query  \* the statement of lines 71-74

cleanVars == <<cpc, input, df, ci, pre, raisedAt>>
ioVars == <<pc, fn, arg, conn, conns, db, result, outcome, printed, calls, ins, log,
            rows0, expected, data>>
schemaVars == <<spc, sdf, column_types, create_table_query>>
vars == <<cleanVars, ioVars, schemaVars>>

\* ------------------------------------------------------------------ bounds
MaxNameLen == 3
MaxRows == 3
MaxLabelRows == 1
MaxCalls == 2
MaxDfRows == 2
MaxSchemaCols == 2

\* ------------------------------------------------------------------ values
\* One cell (or one column label) of a DataFrame.
StrV(s) == [k |-> "str", s |-> s, n |-> 0]
IntV(n) == [k |-> "int", s |-> <<>>, n |-> n]
TsV(s) == [k |-> "ts", s |-> s, n |-> 0]
NaN == [k |-> "nan", s |-> <<>>, n |-> 0]
NaT == [k |-> "nat", s |-> <<>>, n |-> 0]

IsNull(v) == v.k \in {"nan", "nat"}

\* ------------------------------------------------------------------ text
Whitespace == {" ", "\t"}
Digits == {"0", "1", "2", "4"}
LowerLetters == {"a", "b", "d", "i", "v", "x"}
UpperChars == {"A", "U+03D2", "U+0130"}
\* What the regex class \w matches: letters, digits and the underscore.
WordChars == LowerLetters \cup UpperChars \cup Digits \cup {"_"}

RECURSIVE LStrip(_)
LStrip(s) ==
    IF s = <<>> THEN s
    ELSE IF Head(s) \in Whitespace THEN LStrip(Tail(s)) ELSE s

RECURSIVE RStrip(_)
RStrip(s) ==
    IF s = <<>> THEN s
    ELSE IF s[Len(s)] \in Whitespace THEN RStrip(SubSeq(s, 1, Len(s) - 1)) ELSE s

\* str.strip()
Strip(s) == RStrip(LStrip(s))

\* str.lower() of one character: a sequence, since the lowercase form of one
\* character may be two.
LowerChar(c) ==
    CASE c = "A" -> <<"a">>
      [] c = "U+0130" -> <<"i", "U+0307">>
      [] OTHER -> <<c>>

RECURSIVE Lower(_)
Lower(s) == IF s = <<>> THEN <<>> ELSE LowerChar(Head(s)) \o Lower(Tail(s))

\* str.replace(" ", "_")
ReplaceSpaces(s) == [i \in 1..Len(s) |-> IF s[i] = " " THEN "_" ELSE s[i]]

\* str.replace(r"[^\w]", "_", regex=True)
ReplaceNonWord(s) == [i \in 1..Len(s) |-> IF s[i] \in WordChars THEN s[i] ELSE "_"]

\* Mutant of NormalizeName: the regex replacement is left out.
NormalizeNameNoRegex(s) == ReplaceSpaces(Lower(Strip(s)))

\* The column-name pipeline of limpieza_general on one name.
NormalizeName(s) == ReplaceNonWord(ReplaceSpaces(Lower(Strip(s))))

\* ------------------------------------------------------------------ pandas
\* lib.infer_dtype(values, skipna=True) as far as the .str accessor reads it.
InferDtype(vals) ==
    LET present == {i \in 1..Len(vals) : ~IsNull(vals[i])}
    IN  IF present = {} THEN "empty"
        ELSE IF \A i \in present : vals[i].k = "str" THEN "string"
        ELSE IF \A i \in present : vals[i].k = "int" THEN "integer"
        ELSE "mixed-integer"

\* The .str accessor raises AttributeError unless the values look like text.
StrAccessorOK(vals) == InferDtype(vals) \in {"string", "empty", "mixed", "mixed-integer"}

\* Element-wise .str methods: a value that is not text becomes NaN.
StripValue(v) == IF v.k = "str" THEN StrV(Strip(v.s)) ELSE NaN

NormalizeLabel(v) == IF v.k = "str" THEN StrV(NormalizeName(v.s)) ELSE NaN

\* Mutant of IsSeries: a label held by several columns still selects one.
IsSeriesAlways(d, col) == \E i \in 1..Len(d.columns) : d.columns[i] = col

\* df[col] is a Series when exactly one column bears the label, a DataFrame
\* (which has neither .str nor .dtype) when several do.
IsSeries(d, col) == Cardinality({i \in 1..Len(d.columns) : d.columns[i] = col}) = 1

Column(d, i) == [r \in 1..Len(d.rows) |-> d.rows[r][i]]

SetColumn(d, i, vals, dtype) ==
    [d EXCEPT !.rows = [r \in 1..Len(d.rows) |-> [d.rows[r] EXCEPT ![i] = vals[r]]],
              !.dtypes = [d.dtypes EXCEPT ![i] = dtype]]

\* pd.to_datetime(..., errors="raise") on one value: a text of digits is a date
\* (a year), the empty text and a missing value are NaT, any other text fails.
Parses(v) ==
    \/ IsNull(v)
    \/ v.k = "str" /\ \A i \in 1..Len(v.s) : v.s[i] \in Digits

ToDatetimeValue(v) == IF v.k = "str" /\ v.s # <<>> THEN TsV(v.s) ELSE NaT

\* Mutant of ToDatetimeOK: errors="coerce", the call never fails.
ToDatetimeCoerce(vals) == TRUE

ToDatetimeOK(vals) == \A i \in 1..Len(vals) : Parses(vals[i])

ToDatetime(vals) ==
    [i \in 1..Len(vals) |-> IF Parses(vals[i]) THEN ToDatetimeValue(vals[i]) ELSE NaT]

RECURSIVE DropDuplicatesKeepLast(_)
\* Mutant of DropDuplicates: keep="last".
DropDuplicatesKeepLast(rows) ==
    IF rows = <<>> THEN <<>>
    ELSE LET rest == Tail(rows)
         IN  IF \E j \in 1..Len(rest) : rest[j] = Head(rows)
             THEN DropDuplicatesKeepLast(rest)
             ELSE <<Head(rows)>> \o DropDuplicatesKeepLast(rest)

RECURSIVE DropDuplicates(_)
\* DataFrame.drop_duplicates(): keep the first of equal rows, in order.
DropDuplicates(rows) ==
    IF rows = <<>> THEN <<>>
    ELSE LET last == rows[Len(rows)]
             front == SubSeq(rows, 1, Len(rows) - 1)
         IN  IF \E j \in 1..Len(front) : front[j] = last
             THEN DropDuplicates(front)
             ELSE DropDuplicates(front) \o <<last>>

\* ------------------------------------------------------------------ inputs
RECURSIVE SeqsUpTo(_, _)
SeqsUpTo(S, n) ==
    IF n = 0 THEN {<<>>}
    ELSE LET shorter == SeqsUpTo(S, n - 1)
         IN  shorter \cup {Append(s, x) : s \in {t \in shorter : Len(t) = n - 1}, x \in S}

NameChars == {"a", "A", "1", "_", " ", "\t", "!", "U+03D2", "U+0130"}

IntCells == {IntV(1), IntV(2)}
TextCells == {StrV(<<"2", "0", "2", "4">>), StrV(<<" ", "2", "0", "2", "4">>), StrV(<<"x">>)}
ObjectCells == TextCells \cup {IntV(7)}

\* Labels that are distinct as given; some collide once normalized.
SampleLabels ==
    {<<"a", " ", "b">>, <<"a", "_", "b">>, <<"A", "!", "b">>, <<" ", "x">>, <<"x">>}

Cells(dtype, objs) == IF dtype = "int64" THEN IntCells ELSE objs

Frames(labels, dtypes, objs, maxRows) ==
    {[columns |-> labels, dtypes |-> dtypes, rows |-> rows] :
        rows \in SeqsUpTo({<<a, b>> : a \in Cells(dtypes[1], objs),
                                      b \in Cells(dtypes[2], objs)}, maxRows)}

DtypePairs == {<<a, b>> : a \in {"int64", "object"}, b \in {"int64", "object"}}

\* One object column, no rows, every name up to MaxNameLen.
NameFrames ==
    {[columns |-> <<StrV(s)>>, dtypes |-> <<"object">>, rows |-> <<>>] :
        s \in SeqsUpTo(NameChars, MaxNameLen)}

\* Two columns under sample labels (or the default integer labels), few rows.
LabelFrames ==
    UNION {Frames(labels, dtypes, ObjectCells, MaxLabelRows) :
             labels \in {l \in {<<StrV(a), StrV(b)>> : a \in SampleLabels, b \in SampleLabels} :
                               l[1] # l[2]}
                        \cup {<<IntV(0), IntV(1)>>},
             dtypes \in DtypePairs}

\* Two text/integer columns under fixed labels, up to MaxRows rows.
RowFrames ==
    UNION {Frames(<<StrV(<<"i", "d">>), StrV(<<"v">>)>>, dtypes, TextCells, MaxRows) :
             dtypes \in DtypePairs}

\* ------------------------------------------------------------------ schema text
\* str(dtype), line 63.
DtypeStr(dtype) ==
    CASE dtype = "int64" -> <<"i", "n", "t", "6", "4">>
      [] dtype = "uint8" -> <<"u", "i", "n", "t", "8">>
      [] dtype = "Int64" -> <<"I", "n", "t", "6", "4">>
      [] dtype = "float64" -> <<"f", "l", "o", "a", "t", "6", "4">>
      [] dtype = "Float32" -> <<"F", "l", "o", "a", "t", "3", "2">>
      [] dtype = "object" -> <<"o", "b", "j", "e", "c", "t">>
      [] dtype = "bool" -> <<"b", "o", "o", "l">>
      [] dtype = "datetime64[ns]" ->
             <<"d", "a", "t", "e", "t", "i", "m", "e", "6", "4", "[", "n", "s", "]">>
      [] dtype = "interval[float64, right]" ->
             <<"i", "n", "t", "e", "r", "v", "a", "l", "[", "f", "l", "o", "a", "t", "6", "4",
               ",", " ", "r", "i", "g", "h", "t", "]">>

Dtypes ==
    {"int64", "uint8", "Int64", "float64", "Float32", "object", "bool", "datetime64[ns]",
     "interval[float64, right]"}

\* Python's  sub in s  on strings.
Contains(s, sub) ==
    \E i \in 0..(Len(s) - Len(sub)) : SubSeq(s, i + 1, i + Len(sub)) = sub

\* Mutant of ColumnType: the "float" test comes first.
ColumnTypeFloatFirst(dtype) ==
    IF Contains(DtypeStr(dtype), <<"f", "l", "o", "a", "t">>) THEN "FLOAT"
    ELSE IF Contains(DtypeStr(dtype), <<"i", "n", "t">>) THEN "INTEGER"
    ELSE "TEXT"

\* lines 63-68
ColumnType(dtype) ==
    IF Contains(DtypeStr(dtype), <<"i", "n", "t">>) THEN "INTEGER"
    ELSE IF Contains(DtypeStr(dtype), <<"f", "l", "o", "a", "t">>) THEN "FLOAT"
    ELSE "TEXT"

\* line 69: f'"{column}" {column_type}'
ColumnEntry(column, dtype) == <<"\"">> \o column \o <<"\"", " ", ColumnType(dtype)>>

RECURSIVE Join(_, _)
\* sep.join(list)
Join(sep, list) ==
    IF list = <<>> THEN <<>>
    ELSE IF Len(list) = 1 THEN list[1]
    ELSE list[1] \o sep \o Join(sep, Tail(list))

\* lines 72-74
CreateTableQuery(table, columns_schema) ==
    <<"CREATE TABLE IF NOT EXISTS ", "\"", table, "\"", " ", "(">> \o columns_schema \o <<")", ";">>

\* lines 61-71 as one expression, for the statement create_table_from_df issues.
ColumnsSchema(d) ==
    Join(<<",", " ">>,
         [i \in 1..Len(d.columns) |-> ColumnEntry(d.columns[i].s, d.dtypes[i])])

SchemaFrames ==
    {[columns |-> [i \in 1..Len(cols) |-> StrV(cols[i][1])],
      dtypes |-> [i \in 1..Len(cols) |-> cols[i][2]],
      rows |-> <<>>] :
        cols \in SeqsUpTo({<<<<"i", "d">>, "int64">>} \cup
                          {<<name, dtype>> : name \in {<<"i", "d">>, <<"a", " ", "b">>},
                                             dtype \in Dtypes},
                          MaxSchemaCols)}

SchemaIdle ==
    /\ spc = "off"
    /\ sdf = [columns |-> <<>>, dtypes |-> <<>>, rows |-> <<>>]
    /\ column_types = <<>>
    /\ create_table_query = <<>>

SchemaInit ==
    /\ sdf \in SchemaFrames
    /\ spc = "loop"
    /\ column_types = <<>>
    /\ create_table_query = <<>>

\* lines 62-69: one turn of the loop over df.dtypes.items()
AppendColumnType ==
    /\ spc = "loop"
    /\ Len(column_types) < Len(sdf.columns)
    /\ LET i == Len(column_types) + 1
       IN  column_types' = Append(column_types, ColumnEntry(sdf.columns[i].s, sdf.dtypes[i]))
    /\ UNCHANGED <<spc, sdf, create_table_query>>
    /\ UNCHANGED <<cleanVars, ioVars>>

\* lines 71-74
BuildCreateTableQuery ==
    /\ spc = "loop"
    /\ Len(column_types) = Len(sdf.columns)
    /\ create_table_query' = CreateTableQuery("t", Join(<<",", " ">>, column_types))
    /\ spc' = "done"
    /\ UNCHANGED <<sdf, column_types>>
    /\ UNCHANGED <<cleanVars, ioVars>>

SchemaNext ==
    \/ AppendColumnType
    \/ BuildCreateTableQuery

\* ------------------------------------------------------------------ database and files
None == [k |-> "None", v |-> <<>>]
DataFrameV(columns, rows) == [k |-> "DataFrame", v |-> <<columns, rows>>]
TextV(text) == [k |-> "str", v |-> <<text>>]
DictV(text) == [k |-> "dict", v |-> <<text>>]

NoTable == [exists |-> FALSE, schema |-> <<>>, rows |-> <<>>]

\* The files of the caller's disk: whether the path opens, whether its bytes
\* are UTF-8, its text.
Files ==
    [p \in {"q.sql", "cfg.json", "null.json", "raw.bin", "gone"} |->
        CASE p = "q.sql" -> [exists |-> TRUE, utf8 |-> TRUE, text |-> "SELECT * FROM t"]
          [] p = "cfg.json" -> [exists |-> TRUE, utf8 |-> TRUE, text |-> "{\"host\": \"h\"}"]
          [] p = "null.json" -> [exists |-> TRUE, utf8 |-> TRUE, text |-> "null"]
          [] p = "raw.bin" -> [exists |-> TRUE, utf8 |-> FALSE, text |-> ""]
          [] p = "gone" -> [exists |-> FALSE, utf8 |-> FALSE, text |-> ""]]

\* json.load on the texts above: an object, null, or a JSONDecodeError.
IsJson(text) == text \in {"{\"host\": \"h\"}", "null"}
JsonLoad(text) == IF text = "null" THEN None ELSE DictV(text)

\* The statements execute_query is given: a SELECT of the table, a statement
\* with no result set, and one PostgreSQL rejects.
Queries == {"select", "insert", "malformed"}

IOFrames ==
    {[columns |-> <<StrV(<<"i", "d">>), StrV(<<"v">>)>>,
      dtypes |-> <<"int64", "object">>,
      rows |-> rows] :
        rows \in SeqsUpTo({<<IntV(1), StrV(<<"a">>)>>, <<IntV(2), StrV(<<"b">>)>>}, MaxDfRows)}

IOIdle ==
    /\ pc = "off"
    /\ fn = "none"
    /\ arg = None
    /\ conn = 0
    /\ conns = {}
    /\ db = NoTable
    /\ result = None
    /\ outcome = "none"
    /\ printed = "none"
    /\ calls = 0
    /\ ins = 1
    /\ log = <<>>
    /\ rows0 = <<>>
    /\ expected = [ok |-> TRUE, rows |-> <<>>]
    /\ data = <<>>

IOInit ==
    /\ pc = "idle"
    /\ fn = "none"
    /\ arg = None
    /\ conn = 0
    /\ conns = {}
    /\ db = NoTable
    /\ result = None
    /\ outcome = "none"
    /\ printed = "none"
    /\ calls = 0
    /\ ins = 1
    /\ log = <<>>
    /\ rows0 = <<>>
    /\ expected = [ok |-> TRUE, rows |-> <<>>]
    /\ data = <<>>

OnlyIO == UNCHANGED <<cleanVars, schemaVars>>

\* The transaction of connection c.
Txn(c) == CHOOSE t \in conns : t.id = c
NewConn(c) == [id |-> c, created |-> FALSE, schema |-> <<>>, rows |-> <<>>]
\* conns with the transaction of connection c replaced.
WithTxn(t) == {IF x.id = t.id THEN t ELSE x : x \in conns}

\* Mutant of Catches: only the driver's errors are caught.
CatchesDriverErrorsOnly(exc) == exc = "psycopg2.Error"

\* except Exception: every failure of a step is caught.
Catches(exc) == TRUE

\* A call begins: the locals are fresh.
Call(f, a) ==
    /\ pc = "idle"
    /\ calls < MaxCalls
    /\ calls' = calls + 1
    /\ fn' = f
    /\ arg' = a
    /\ conn' = 0
    /\ ins' = 1
    /\ log' = <<>>
    /\ rows0' = db.rows
    /\ result' = None
    /\ outcome' = "none"
    /\ printed' = "none"
    /\ UNCHANGED <<conns, db, expected>>

\* return value: the call ends and its locals are dropped.
Return(value, message) ==
    /\ pc' = "idle"
    /\ result' = value
    /\ outcome' = "returned"
    /\ printed' = message
    /\ conn' = 0
    /\ expected' =
         IF fn # "create_table_from_df" THEN expected
         ELSE IF message = "created" /\ expected.ok
         THEN [expected EXCEPT !.rows = @ \o arg.v[1].rows]
         ELSE [ok |-> FALSE, rows |-> <<>>]

\* A step raised exc: the except clause prints and returns None; an exception
\* it does not catch leaves the function.
Fail(exc) ==
    IF Catches(exc)
    THEN Return(None, "error")
    ELSE /\ pc' = "idle"
         /\ result' = None
         /\ outcome' = "raised"
         /\ printed' = "none"
         /\ conn' = 0
         /\ expected' = [ok |-> FALSE, rows |-> <<>>]

Goto(next) ==
    /\ pc' = next
    /\ UNCHANGED <<result, outcome, printed, conn, expected>>

\* psycopg2.connect succeeded: the server has one more connection.
Connected(next) ==
    /\ pc' = next
    /\ conn' = calls
    /\ conns' = conns \cup {NewConn(calls)}
    /\ UNCHANGED <<result, outcome, printed, expected>>

Step == UNCHANGED <<calls, fn, arg, rows0>> /\ OnlyIO
Issue(statement) == log' = Append(log, statement)

\* ------------------------------------------------------------------ execute_query
CallExecuteQuery ==
    /\ \E q \in Queries : Call("execute_query", [k |-> "query", v |-> <<q>>])
    /\ pc' = "L19"
    /\ UNCHANGED data
    /\ OnlyIO

\* line 19: conn = psycopg2.connect(**db_config)
EqConnect ==
    /\ pc = "L19"
    /\ Issue("connect")
    /\ \E ok \in BOOLEAN :
         IF ok THEN Connected("L20") ELSE Fail("psycopg2.Error") /\ UNCHANGED conns
    /\ UNCHANGED <<db, ins, data>>
    /\ Step

\* line 20: cursor = conn.cursor()
EqCursor ==
    /\ pc = "L20"
    /\ Issue("cursor")
    /\ \E ok \in BOOLEAN : IF ok THEN Goto("L23") ELSE Fail("psycopg2.Error")
    /\ UNCHANGED <<conns, db, ins, data>>
    /\ Step

\* line 23: cursor.execute(query)
EqExecute ==
    /\ pc = "L23"
    /\ Issue("execute")
    /\ \E ok \in BOOLEAN :
         IF ok /\ arg.v[1] # "malformed" /\ db.exists
         THEN /\ Goto("L24")
              /\ conns' = IF arg.v[1] = "insert"
                          THEN WithTxn([Txn(conn) EXCEPT
                                          !.rows = Append(@, <<IntV(9), StrV(<<"z">>)>>)])
                          ELSE conns
         ELSE Fail("psycopg2.Error") /\ UNCHANGED conns
    /\ UNCHANGED <<db, ins, data>>
    /\ Step

\* lines 24-26: the names in cursor.description, which is None when the
\* statement has no result set.
EqDescription ==
    /\ pc = "L24"
    /\ IF arg.v[1] = "select"
       THEN Goto("L27") /\ data' = <<db.schema, <<>>>>
       ELSE Fail("TypeError") /\ UNCHANGED data
    /\ UNCHANGED <<conns, db, ins, log>>
    /\ Step

\* lines 27-30: data = cursor.fetchall(); df = pd.DataFrame(data, columns=columns)
EqFetch ==
    /\ pc = "L27"
    /\ Issue("fetchall")
    /\ \E ok \in BOOLEAN :
         IF ok
         THEN Goto("L33") /\ data' = <<data[1], db.rows>>
         ELSE Fail("psycopg2.Error") /\ UNCHANGED data
    /\ UNCHANGED <<conns, db, ins>>
    /\ Step

\* line 33: cursor.close()
EqCloseCursor ==
    /\ pc = "L33"
    /\ Issue("cursor.close")
    /\ \E ok \in BOOLEAN : IF ok THEN Goto("L34") ELSE Fail("psycopg2.Error")
    /\ UNCHANGED <<conns, db, ins, data>>
    /\ Step

\* lines 34-36: conn.close(); return df
EqCloseConn ==
    /\ pc = "L34"
    /\ Issue("conn.close")
    /\ \E ok \in BOOLEAN :
         IF ok
         THEN /\ conns' = conns \ {Txn(conn)}
              /\ Return(DataFrameV(data[1], data[2]), "none")
         ELSE Fail("psycopg2.Error") /\ UNCHANGED conns
    /\ UNCHANGED <<db, ins, data>>
    /\ Step

\* ------------------------------------------------------------------ create_table_from_df
CallCreateTable ==
    /\ \E d \in IOFrames : Call("create_table_from_df", [k |-> "df", v |-> <<d>>])
    /\ pc' = "L57"
    /\ UNCHANGED data
    /\ OnlyIO

\* line 57: conn = psycopg2.connect(**db_config)
CtConnect ==
    /\ pc = "L57"
    /\ Issue("connect")
    /\ \E ok \in BOOLEAN :
         IF ok THEN Connected("L58") ELSE Fail("psycopg2.Error") /\ UNCHANGED conns
    /\ UNCHANGED <<db, ins, data>>
    /\ Step

\* line 58: cursor = conn.cursor()
CtCursor ==
    /\ pc = "L58"
    /\ Issue("cursor")
    /\ \E ok \in BOOLEAN : IF ok THEN Goto("L61") ELSE Fail("psycopg2.Error")
    /\ UNCHANGED <<conns, db, ins, data>>
    /\ Step

\* lines 61-77: build the schema, execute CREATE TABLE IF NOT EXISTS
CtCreate ==
    /\ pc = "L61"
    /\ Issue("CREATE TABLE IF NOT EXISTS")
    /\ \E ok \in BOOLEAN :
         IF ok
         THEN /\ Goto("L78")
              /\ conns' = IF db.exists THEN conns
                          ELSE WithTxn([Txn(conn) EXCEPT
                                          !.created = TRUE,
                                          !.schema = CreateTableQuery("t", ColumnsSchema(arg.v[1]))])
         ELSE Fail("psycopg2.Error") /\ UNCHANGED conns
    /\ UNCHANGED <<db, ins, data>>
    /\ Step

\* Mutant of CommitTxn: the commit replaces the table's rows.
CommitTxnReplacing(t) ==
    [exists |-> db.exists \/ t.created,
     schema |-> IF t.created THEN t.schema ELSE db.schema,
     rows |-> t.rows]

\* conn.commit(): the table is created if the transaction created it, and the
\* rows the transaction inserted follow the rows the table has.
CommitTxn(t) ==
    [exists |-> db.exists \/ t.created,
     schema |-> IF t.created THEN t.schema ELSE db.schema,
     rows |-> db.rows \o t.rows]

\* line 78: conn.commit()
CtCommitCreate ==
    /\ pc = "L78"
    /\ Issue("commit")
    /\ \E ok \in BOOLEAN :
         IF ok
         THEN /\ db' = CommitTxn(Txn(conn))
              /\ conns' = WithTxn(NewConn(conn))
              /\ Goto(IF arg.v[1].rows = <<>> THEN "L88" ELSE "L81")
         ELSE Fail("psycopg2.Error") /\ UNCHANGED <<db, conns>>
    /\ UNCHANGED <<ins, data>>
    /\ Step

\* Mutant of InsertCommits: the connection is in autocommit mode.
InsertCommitsAtOnce == TRUE

\* psycopg2 opens a transaction with the first statement: an INSERT is
\* committed by conn.commit() only.
InsertCommits == FALSE

\* lines 81-84: one turn of the loop over df.iterrows()
CtInsert ==
    /\ pc = "L81"
    /\ Issue("INSERT")
    /\ \E ok \in BOOLEAN :
         IF ok
         THEN /\ IF InsertCommits
                 THEN /\ db' = [db EXCEPT !.rows = Append(@, arg.v[1].rows[ins])]
                      /\ UNCHANGED conns
                 ELSE /\ conns' = WithTxn([Txn(conn) EXCEPT
                                             !.rows = Append(@, arg.v[1].rows[ins])])
                      /\ UNCHANGED db
              /\ ins' = ins + 1
              /\ Goto(IF ins = Len(arg.v[1].rows) THEN "L88" ELSE "L81")
         ELSE Fail("psycopg2.Error") /\ UNCHANGED <<db, conns, ins>>
    /\ UNCHANGED data
    /\ Step

\* line 88: conn.commit()
CtCommitRows ==
    /\ pc = "L88"
    /\ Issue("commit")
    /\ \E ok \in BOOLEAN :
         IF ok
         THEN /\ db' = CommitTxn(Txn(conn))
              /\ conns' = WithTxn(NewConn(conn))
              /\ Goto("L91")
         ELSE Fail("psycopg2.Error") /\ UNCHANGED <<db, conns>>
    /\ UNCHANGED <<ins, data>>
    /\ Step

\* line 91: cursor.close()
CtCloseCursor ==
    /\ pc = "L91"
    /\ Issue("cursor.close")
    /\ \E ok \in BOOLEAN : IF ok THEN Goto("L92") ELSE Fail("psycopg2.Error")
    /\ UNCHANGED <<conns, db, ins, data>>
    /\ Step

\* lines 92-93: conn.close(); print(... creada exitosamente ...)
CtCloseConn ==
    /\ pc = "L92"
    /\ Issue("conn.close")
    /\ \E ok \in BOOLEAN :
         IF ok
         THEN /\ conns' = conns \ {Txn(conn)}
              /\ Return(None, "created")
         ELSE Fail("psycopg2.Error") /\ UNCHANGED conns
    /\ UNCHANGED <<db, ins, data>>
    /\ Step

\* ------------------------------------------------------------------ file readers
CallReadSqlFile ==
    /\ \E p \in DOMAIN Files : Call("read_sql_file", [k |-> "path", v |-> <<p>>])
    /\ pc' = "L109"
    /\ UNCHANGED data
    /\ OnlyIO

\* line 109: open(file_path, "r", encoding="utf-8")
RsOpen ==
    /\ pc = "L109"
    /\ IF Files[arg.v[1]].exists THEN Goto("L110") ELSE Fail("FileNotFoundError")
    /\ UNCHANGED <<conns, db, ins, log, data>>
    /\ Step

\* lines 110-111: sql_query = file.read(); return sql_query
RsRead ==
    /\ pc = "L110"
    /\ IF Files[arg.v[1]].utf8
       THEN Return(TextV(Files[arg.v[1]].text), "none")
       ELSE Fail("UnicodeDecodeError")
    /\ UNCHANGED <<conns, db, ins, log, data>>
    /\ Step

CallReadJsonFile ==
    /\ \E p \in DOMAIN Files : Call("read_json_file", [k |-> "path", v |-> <<p>>])
    /\ pc' = "L128"
    /\ UNCHANGED data
    /\ OnlyIO

\* line 128: open(file_path, "r", encoding="utf-8")
RjOpen ==
    /\ pc = "L128"
    /\ IF Files[arg.v[1]].exists THEN Goto("L129") ELSE Fail("FileNotFoundError")
    /\ UNCHANGED <<conns, db, ins, log, data>>
    /\ Step

\* lines 129-130: data = json.load(file); return data
RjLoad ==
    /\ pc = "L129"
    /\ IF ~Files[arg.v[1]].utf8 THEN Fail("UnicodeDecodeError")
       ELSE IF ~IsJson(Files[arg.v[1]].text) THEN Fail("JSONDecodeError")
       ELSE Return(JsonLoad(Files[arg.v[1]].text), "none")
    /\ UNCHANGED <<conns, db, ins, log, data>>
    /\ Step

\* ------------------------------------------------------------------ the interpreter
\* A connection object no variable refers to any more is closed when the
\* interpreter collects it, which may be at once, later or never; the server
\* rolls its open transaction back.
Finalize ==
    /\ \E t \in conns : t.id # conn /\ conns' = conns \ {t}
    /\ UNCHANGED <<pc, fn, arg, conn, db, result, outcome, printed, calls, ins, log,
                   rows0, expected, data>>
    /\ OnlyIO

IONext ==
    \/ CallExecuteQuery
    \/ EqConnect
    \/ EqCursor
    \/ EqExecute
    \/ EqDescription
    \/ EqFetch
    \/ EqCloseCursor
    \/ EqCloseConn
    \/ CallCreateTable
    \/ CtConnect
    \/ CtCursor
    \/ CtCreate
    \/ CtCommitCreate
    \/ CtInsert
    \/ CtCommitRows
    \/ CtCloseCursor
    \/ CtCloseConn
    \/ CallReadSqlFile
    \/ RsOpen
    \/ RsRead
    \/ CallReadJsonFile
    \/ RjOpen
    \/ RjLoad
    \/ Finalize

\* ------------------------------------------------------------------ limpieza_general
CleanInit(frames) ==
    /\ IOIdle
    /\ SchemaIdle
    /\ input \in frames
    /\ df = input
    /\ cpc = "normalize"
    /\ ci = 1
    /\ pre = <<>>
    /\ raisedAt = 0

Raise(line) ==
    /\ cpc' = "raised"
    /\ raisedAt' = line
    /\ UNCHANGED <<input, df, ci, pre>>

OnlyCleaner == UNCHANGED <<ioVars, schemaVars>>

\* lines 151-156: df.columns = df.columns.str.strip().str.lower()...
NormalizeColumns ==
    /\ OnlyCleaner
    /\ cpc = "normalize"
    /\ IF StrAccessorOK(df.columns)
       THEN /\ df' = [df EXCEPT !.columns =
                        [i \in 1..Len(df.columns) |-> NormalizeLabel(df.columns[i])]]
            /\ cpc' = "trim"
            /\ ci' = 1
            /\ UNCHANGED <<input, pre, raisedAt>>
       ELSE Raise(152)

\* lines 159-160: one step of the loop over the object columns.
TrimColumn ==
    /\ OnlyCleaner
    /\ cpc = "trim"
    /\ IF ci > Len(df.columns)
       THEN /\ cpc' = "dates"
            /\ ci' = 1
            /\ UNCHANGED <<input, df, pre, raisedAt>>
       ELSE IF df.dtypes[ci] # "object"
       THEN /\ ci' = ci + 1
            /\ UNCHANGED <<cpc, input, df, pre, raisedAt>>
       ELSE IF IsSeries(df, df.columns[ci]) /\ StrAccessorOK(Column(df, ci))
       THEN /\ df' = SetColumn(df, ci,
                        [r \in 1..Len(df.rows) |-> StripValue(df.rows[r][ci])],
                        "object")
            /\ ci' = ci + 1
            /\ UNCHANGED <<cpc, input, pre, raisedAt>>
       ELSE Raise(160)

\* Mutant of ConvertColumn: no try/except around pd.to_datetime.
ConvertColumnNoTry ==
    /\ OnlyCleaner
    /\ cpc = "dates"
    /\ IF ci > Len(df.columns)
       THEN /\ cpc' = "dedup"
            /\ UNCHANGED <<input, df, ci, pre, raisedAt>>
       ELSE IF ~IsSeries(df, df.columns[ci])
       THEN Raise(164)
       ELSE IF df.dtypes[ci] = "object" /\ ~ToDatetimeOK(Column(df, ci))
       THEN Raise(166)
       ELSE /\ df' = IF df.dtypes[ci] = "object"
                     THEN SetColumn(df, ci, ToDatetime(Column(df, ci)), "datetime64[ns]")
                     ELSE df
            /\ ci' = ci + 1
            /\ UNCHANGED <<cpc, input, pre, raisedAt>>

\* lines 163-169: one step of the loop over all columns.
ConvertColumn ==
    /\ OnlyCleaner
    /\ cpc = "dates"
    /\ IF ci > Len(df.columns)
       THEN /\ cpc' = "dedup"
            /\ UNCHANGED <<input, df, ci, pre, raisedAt>>
       ELSE IF ~IsSeries(df, df.columns[ci])
       THEN Raise(164)
       ELSE /\ df' = IF df.dtypes[ci] = "object" /\ ToDatetimeOK(Column(df, ci))
                     THEN SetColumn(df, ci, ToDatetime(Column(df, ci)), "datetime64[ns]")
                     ELSE df
            /\ ci' = ci + 1
            /\ UNCHANGED <<cpc, input, pre, raisedAt>>

\* line 172: df = df.drop_duplicates()
Deduplicate ==
    /\ OnlyCleaner
    /\ cpc = "dedup"
    /\ pre' = df.rows
    /\ df' = [df EXCEPT !.rows = DropDuplicates(df.rows)]
    /\ cpc' = "report"
    /\ UNCHANGED <<input, ci, raisedAt>>

\* lines 175-181: the report, then return df.
ReportAndReturn ==
    /\ OnlyCleaner
    /\ cpc = "report"
    /\ cpc' = "returned"
    /\ UNCHANGED <<input, df, ci, pre, raisedAt>>

CleanNext ==
    \/ NormalizeColumns
    \/ TrimColumn
    \/ ConvertColumn
    \/ Deduplicate
    \/ ReportAndReturn

InitNames == CleanInit(NameFrames)
InitLabels == CleanInit(LabelFrames)
InitRows == CleanInit(RowFrames)

SpecNames == InitNames /\ [][CleanNext]_vars
SpecLabels == InitLabels /\ [][CleanNext]_vars
SpecRows == InitRows /\ [][CleanNext]_vars

CleanIdle ==
    /\ cpc = "off"
    /\ input = [columns |-> <<>>, dtypes |-> <<>>, rows |-> <<>>]
    /\ df = input
    /\ ci = 1
    /\ pre = <<>>
    /\ raisedAt = 0

Init == IOInit /\ SchemaIdle /\ CleanIdle
InitSchema == SchemaInit /\ IOIdle /\ CleanIdle

Spec == Init /\ [][IONext]_vars
SpecSchema == InitSchema /\ [][SchemaNext]_vars
\* ------------------------------------------------------------------ claims: cleaner
Distinct(s) == \A i, j \in 1..Len(s) : i # j => s[i] # s[j]
Range(s) == {s[i] : i \in 1..Len(s)}
FirstIndex(s, x) == CHOOSE i \in 1..Len(s) : s[i] = x /\ \A j \in 1..(i - 1) : s[j] # x
Normalized == cpc \notin {"normalize", "raised"}
NameOK(s) ==
    /\ \A i \in 1..Len(s) : s[i] \in WordChars
    /\ Strip(s) = s
    /\ NormalizeName(s) = s

\* C6 as stated: once the column names are normalized, normalizing them again
\* changes nothing, and every name holds only word characters, no uppercase
\* letter and no leading or trailing whitespace.
C6_Original ==
    Normalized =>
        \A i \in 1..Len(df.columns) :
            /\ NameOK(df.columns[i].s)
            /\ \A j \in 1..Len(df.columns[i].s) : df.columns[i].s[j] \notin UpperChars

\* C6 amended: once the column names are normalized, normalizing them again
\* changes nothing, and every name holds only word characters, is its own
\* lowercase form (an uppercase letter that has no lowercase form stays) and
\* has no leading or trailing whitespace.
C6_Idempotent ==
    Normalized =>
        \A i \in 1..Len(df.columns) :
            /\ df.columns[i] = NormalizeLabel(input.columns[i])
            /\ NameOK(df.columns[i].s)
            /\ Lower(df.columns[i].s) = df.columns[i].s

C6_Witness ==
    /\ cpc = "returned"
    /\ input.columns = <<StrV(<<" ", "A", "!">>)>>
    /\ df.columns = <<StrV(<<"a", "_">>)>>

\* What limpieza_general needs of its input not to raise: text labels that stay
\* distinct once normalized, and no object column whose values are all numbers.
CleanInputOK(d) ==
    /\ \A i \in 1..Len(d.columns) : d.columns[i].k = "str"
    /\ Distinct([i \in 1..Len(d.columns) |-> NormalizeName(d.columns[i].s)])
    /\ \A i \in 1..Len(d.columns) :
           d.dtypes[i] = "object" =>
               \/ \A r \in 1..Len(d.rows) : d.rows[r][i].k \notin {"int"}
               \/ \E r \in 1..Len(d.rows) : d.rows[r][i].k = "str"

\* C5 as stated: limpieza_general never lets an exception reach its caller.
C5_Original == cpc # "raised"

\* C5 amended: limpieza_general has no catch at its boundary.  It returns exactly
\* when the labels are text that stays distinct once normalized and no object
\* column holds only numbers; otherwise the failure of the label normalization
\* (line 152), of the trimming (line 160) or of the dtype test (line 164)
\* reaches the caller.  A date that does not parse is caught and never raises,
\* and every call ends in one of the two ways.
C5_RaisesOnlyOutsideDateParsing ==
    /\ cpc = "raised" => raisedAt \in {152, 160, 164} /\ ~CleanInputOK(input)
    /\ cpc = "returned" => raisedAt = 0 /\ CleanInputOK(input)
    /\ cpc \notin {"raised", "returned"} => ENABLED CleanNext

C5_Witness ==
    /\ cpc = "returned"
    /\ \E i \in 1..Len(df.columns) :
           /\ input.dtypes[i] = "object"
           /\ df.dtypes[i] = "object"
           /\ \E r \in 1..Len(pre) : pre[r][i].k = "str" /\ ~Parses(pre[r][i])

\* C10 as stated: distinct input names stay distinct once normalized.
C10_Original ==
    (Normalized /\ Distinct(input.columns)) => Distinct(df.columns)

\* C10 amended: whenever limpieza_general returns, the result's column names
\* are the normalized input names, they are unique, and there are as many
\* columns as in the input.  Normalization may map two distinct input names to
\* one name ("a b" and "a_b"); the call then raises instead of returning.
C10_ReturnedNamesUnique ==
    /\ cpc = "returned" =>
           /\ Distinct(df.columns)
           /\ Len(df.columns) = Len(input.columns)
           /\ Len(df.dtypes) = Len(input.columns)
           /\ \A r \in 1..Len(df.rows) : Len(df.rows[r]) = Len(input.columns)
           /\ \A i \in 1..Len(df.columns) : df.columns[i] = NormalizeLabel(input.columns[i])
    /\ (Normalized /\ ~Distinct(df.columns)) => cpc \in {"trim", "dates"}

C10_Witness ==
    /\ cpc = "returned"
    /\ input.columns = <<StrV(<<"a", " ", "b">>), StrV(<<" ", "x">>)>>
    /\ df.columns = <<StrV(<<"a", "_", "b">>), StrV(<<"x">>)>>

\* C7 as stated: the result holds each distinct row of the input exactly once,
\* so rows of the input that differ in some column are all kept.
C7_Original == cpc = "returned" => Len(df.rows) = Cardinality(Range(input.rows))

\* The value a cell has when the rows are compared.
CleanCell(d, c, v) ==
    IF input.dtypes[c] # "object" THEN v
    ELSE IF d.dtypes[c] = "datetime64[ns]" THEN ToDatetimeValue(StripValue(v))
    ELSE StripValue(v)

\* C7 amended: rows are compared as they are after trimming and date
\* conversion.  The result holds no two equal rows, holds each distinct cleaned
\* row exactly once, and keeps them in the order of their first occurrence.
C7_KeepsFirstOfCleanedRows ==
    cpc = "returned" =>
        /\ Len(pre) = Len(input.rows)
        /\ \A r \in 1..Len(pre) : \A c \in 1..Len(df.columns) :
               pre[r][c] = CleanCell(df, c, input.rows[r][c])
        /\ Distinct(df.rows)
        /\ Range(df.rows) = Range(pre)
        /\ \A i, j \in 1..Len(df.rows) :
               i < j => FirstIndex(pre, df.rows[i]) < FirstIndex(pre, df.rows[j])

C7_Witness ==
    /\ cpc = "returned"
    /\ Len(pre) = 3
    /\ pre[1] = pre[3]
    /\ pre[1] # pre[2]
    /\ df.rows = <<pre[1], pre[2]>>

\* The column c of the frame as it is before drop_duplicates.
ColumnBeforeDedup(c) ==
    IF cpc \in {"report", "returned"} THEN [r \in 1..Len(pre) |-> pre[r][c]] ELSE Column(df, c)

TrimmedInput(c) == [r \in 1..Len(input.rows) |-> StripValue(input.rows[r][c])]

\* C8: once the date loop has passed a text column, the column is date-typed if
\* and only if every trimmed value of it parses; a column with a value that
\* does not parse is exactly the trimmed column; columns are decided one by
\* one, and a failed parse never raises.
C8_DateInferenceAllOrNothing ==
    /\ cpc # "raised"
    /\ cpc \in {"dates", "dedup", "report", "returned"} =>
           \A c \in 1..Len(df.columns) :
               LET decided == cpc # "dates" \/ c < ci
                   allParse == \A r \in 1..Len(input.rows) : Parses(TrimmedInput(c)[r])
               IN  IF input.dtypes[c] = "object" /\ decided /\ allParse
                   THEN /\ df.dtypes[c] = "datetime64[ns]"
                        /\ ColumnBeforeDedup(c) = ToDatetime(TrimmedInput(c))
                   ELSE IF input.dtypes[c] = "object"
                   THEN /\ df.dtypes[c] = "object"
                        /\ ColumnBeforeDedup(c) = TrimmedInput(c)
                   ELSE /\ df.dtypes[c] = input.dtypes[c]
                        /\ ColumnBeforeDedup(c) = Column(input, c)

C8_Witness ==
    /\ cpc = "returned"
    /\ df.dtypes = <<"object", "datetime64[ns]">>
    /\ \E r \in 1..Len(pre) : pre[r][1].k = "str" /\ Parses(pre[r][1])
    /\ \E r \in 1..Len(pre) : ~Parses(pre[r][1])
    /\ \E r \in 1..Len(pre) : pre[r][2].k = "ts"
\* ------------------------------------------------------------------ claims: database, files, schema
IsPrefix(s, t) == Len(s) <= Len(t) /\ SubSeq(t, 1, Len(s)) = s
Count(s, x) == Cardinality({i \in 1..Len(s) : s[i] = x})
Ended == pc = "idle" /\ fn # "none"
LastIssued == IF log = <<>> THEN "nothing" ELSE log[Len(log)]

\* C1 as stated: when execute_query or create_table_from_df has returned, no
\* connection it opened is open any more.
C1_NoConnectionOpenAfterReturn == pc = "idle" => conns = {}

\* C2: execute_query, read_sql_file and read_json_file never raise; a call in
\* which a step failed returns None, whatever the failure (no connection, a
\* rejected statement, a statement without result set, a fetch or close error,
\* a missing or undecodable file, text that is not JSON); a value other than
\* None is returned only by a call all of whose steps succeeded.
C2_FailureReturnsNone ==
    /\ outcome # "raised"
    /\ (Ended /\ fn \in {"execute_query", "read_sql_file", "read_json_file"}) =>
           /\ outcome = "returned"
           /\ printed = "error" => result = None
           /\ result # None => printed = "none"
    /\ (Ended /\ fn = "execute_query") =>
           /\ arg.v[1] \in {"malformed", "insert"} => result = None /\ printed = "error"
           /\ ~db.exists => result = None
           /\ result # None =>
                  /\ log = <<"connect", "cursor", "execute", "fetchall", "cursor.close",
                             "conn.close">>
                  /\ result = DataFrameV(db.schema, db.rows)
    /\ (Ended /\ fn \in {"read_sql_file", "read_json_file"}) =>
           /\ (~Files[arg.v[1]].exists \/ ~Files[arg.v[1]].utf8) =>
                  result = None /\ printed = "error"
           /\ (fn = "read_json_file" /\ ~IsJson(Files[arg.v[1]].text)) =>
                  result = None /\ printed = "error"
           /\ (fn = "read_sql_file" /\ printed = "none") =>
                  result = TextV(Files[arg.v[1]].text)

C2_Witness ==
    /\ Ended
    /\ fn = "execute_query"
    /\ arg.v[1] = "insert"
    /\ LastIssued = "execute"
    /\ conns # {}
    /\ result = None
    /\ printed = "error"

C9_CommitOrder ==
    fn = "create_table_from_df" =>
        /\ outcome # "raised"
        /\ \A i \in 1..Len(log) : log[i] # "rollback"
        /\ \A i \in 1..Len(log) :
               log[i] = "INSERT" =>
                   /\ db.exists
                   /\ \E j \in 1..(i - 1) : \E k \in 1..(j - 1) :
                          log[j] = "commit" /\ log[k] = "CREATE TABLE IF NOT EXISTS"
        /\ db.rows # rows0 =>
               /\ Count(log, "INSERT") = Len(arg.v[1].rows)
               /\ Count(log, "commit") = 2
               /\ \E j \in 1..Len(log) :
                      /\ log[j] = "commit"
                      /\ \A i \in 1..Len(log) : log[i] = "INSERT" => i < j
                      /\ \A i \in 1..Len(log) : log[i] = "conn.close" => j < i
        /\ (Ended /\ printed = "error" /\ LastIssued = "INSERT") =>
               /\ outcome = "returned"
               /\ result = None
               /\ db.exists
               /\ db.rows = rows0

C9_Witness ==
    /\ Ended
    /\ fn = "create_table_from_df"
    /\ printed = "error"
    /\ LastIssued = "INSERT"
    /\ Count(log, "INSERT") = 2
    /\ db.exists
    /\ db.rows = rows0

TypeTag(entry) == entry[Len(entry)]

\* C4: the schema has one entry per column, in column order; an entry is the
\* column name in double quotes, a space and a type tag; the tag is INTEGER
\* when the dtype's name contains "int", else FLOAT when it contains "float",
\* else TEXT.
C4_SchemaTypes ==
    /\ Len(column_types) <= Len(sdf.columns)
    /\ spc = "done" => Len(column_types) = Len(sdf.columns)
    /\ \A i \in 1..Len(column_types) :
           LET name == DtypeStr(sdf.dtypes[i])
               hasInt == Contains(name, <<"i", "n", "t">>)
               hasFloat == Contains(name, <<"f", "l", "o", "a", "t">>)
               entry == column_types[i]
           IN  /\ entry = <<"\"">> \o sdf.columns[i].s \o <<"\"", " ", TypeTag(entry)>>
               /\ TypeTag(entry) \in {"INTEGER", "FLOAT", "TEXT"}
               /\ TypeTag(entry) = "INTEGER" <=> hasInt
               /\ TypeTag(entry) = "FLOAT" <=> (~hasInt /\ hasFloat)
               /\ TypeTag(entry) = "TEXT" <=> (~hasInt /\ ~hasFloat)
    /\ spc = "done" =>
           /\ Count(create_table_query, "INTEGER") + Count(create_table_query, "FLOAT")
                + Count(create_table_query, "TEXT") = Len(sdf.columns)
           /\ SubSeq(create_table_query, 1, 6) =
                  <<"CREATE TABLE IF NOT EXISTS ", "\"", "t", "\"", " ", "(">>

C4_Witness ==
    /\ spc = "done"
    /\ sdf.dtypes = <<"interval[float64, right]", "object">>
    /\ TypeTag(column_types[1]) = "INTEGER"
    /\ TypeTag(column_types[2]) = "TEXT"
====
